---- MODULE Spec2Model ----
(***************************************************************************)
(* Model of src/network_sim.py: the route-network dashboard pipeline.      *)
(*                                                                         *)
(* The script is one straight-line pass (base load, Pavlina load, column   *)
(* derivation, frequency count, unit-revenue metrics, fallback fill,       *)
(* elasticity, stage-length normalisation, usefulness, RRS, views).  Each  *)
(* stage is one action of the pipeline specification Spec; the per-record  *)
(* and per-batch functions are operators, which the pipeline actions and   *)
(* the function-level specifications (SpecHub, SpecRRS, SpecElast,         *)
(* SpecUse) share.                                                         *)
(*                                                                         *)
(* Lines 130-153 of the file are mis-indented (the file does not compile   *)
(* as it stands); the statements are modelled in their textual order as    *)
(* part of the outer try block, which is what the surrounding code and     *)
(* the except clause at line 204 show them to be.                          *)
(***************************************************************************)
EXTENDS Integers, Sequences, FiniteSets, TLC

(***************************************************************************)
(* Numbers.  A pandas float cell is NaN, +inf, -inf or a finite value; a   *)
(* finite value is kept as an exact reduced fraction n/d, d > 0.  IEEE     *)
(* rules for the non-finite cases (x/0, inf-inf, 0*inf, NaN propagation)   *)
(* are modelled; rounding and the sign of zero are not.                    *)
(***************************************************************************)
RECURSIVE GCD(_, _)
GCD(a, b) ==
    IF b = 0 THEN a ELSE GCD(b, a % b)

Abs(n) ==
    IF n < 0 THEN -n ELSE n

Sgn(n) ==
    IF n < 0 THEN -1 ELSE IF n > 0 THEN 1 ELSE 0

NaN ==
    [k |-> "nan", n |-> 0, d |-> 1]

PInf ==
    [k |-> "inf", n |-> 1, d |-> 1]

NInf ==
    [k |-> "inf", n |-> -1, d |-> 1]

InfS(s) ==
    IF s < 0 THEN NInf ELSE PInf

Fin(n, d) ==
    LET g == GCD(Abs(n), Abs(d))
        s == IF d < 0 THEN -1 ELSE 1
    IN  [k |-> "fin", n |-> (s * n) \div g, d |-> (s * d) \div g]

Num(n) ==
    Fin(n, 1)

IsNaN(x) ==
    x.k = "nan"

NotNa(x) ==
    x.k # "nan"

IsFin(x) ==
    x.k = "fin"

IsInf(x) ==
    x.k = "inf"

IsZero(x) ==
    x.k = "fin" /\ x.n = 0

\* the sign of a non-NaN number: -1, 0 or 1
SignOf(x) ==
    Sgn(x.n)

Neg(x) ==
    IF IsNaN(x) THEN NaN
    ELSE IF IsInf(x) THEN InfS(-x.n)
    ELSE Fin(-x.n, x.d)

Add(x, y) ==
    IF IsNaN(x) \/ IsNaN(y) THEN NaN
    ELSE IF IsInf(x) /\ IsInf(y) THEN (IF x.n = y.n THEN x ELSE NaN)
    ELSE IF IsInf(x) THEN x
    ELSE IF IsInf(y) THEN y
    ELSE LET g == GCD(x.d, y.d)
         IN  Fin(x.n * (y.d \div g) + y.n * (x.d \div g), (x.d \div g) * y.d)

Sub(x, y) ==
    Add(x, Neg(y))

Mul(x, y) ==
    IF IsNaN(x) \/ IsNaN(y) THEN NaN
    ELSE IF IsInf(x) \/ IsInf(y)
         THEN (IF IsZero(x) \/ IsZero(y) THEN NaN ELSE InfS(SignOf(x) * SignOf(y)))
    ELSE IF x.n = 0 \/ y.n = 0 THEN Num(0)
    ELSE LET g1 == GCD(Abs(x.n), y.d)
             g2 == GCD(Abs(y.n), x.d)
         IN  Fin((x.n \div g1) * (y.n \div g2), (x.d \div g2) * (y.d \div g1))

\* 1/y for a finite nonzero y
Inv(y) ==
    Fin(y.d * Sgn(y.n), Abs(y.n))

Div(x, y) ==
    IF IsNaN(x) \/ IsNaN(y) THEN NaN
    ELSE IF IsInf(x) THEN (IF IsInf(y) THEN NaN
                           ELSE InfS(x.n * (IF y.n < 0 THEN -1 ELSE 1)))
    ELSE IF IsInf(y) THEN Num(0)
    ELSE IF y.n = 0 THEN (IF x.n = 0 THEN NaN ELSE InfS(x.n))
    ELSE Mul(x, Inv(y))

\* x < y as numpy/Python evaluate it: False when either side is NaN
Lt(x, y) ==
    IF IsNaN(x) \/ IsNaN(y) THEN FALSE
    ELSE IF IsInf(x) THEN x.n < 0 /\ ~(IsInf(y) /\ y.n < 0)
    ELSE IF IsInf(y) THEN y.n > 0
    ELSE LET g == GCD(x.d, y.d)
         IN  x.n * (y.d \div g) < y.n * (x.d \div g)

Gt(x, y) ==
    Lt(y, x)

(***************************************************************************)
(* Text cells.  A cell of an object column is a Python str, a missing      *)
(* value (NaN) or a number; s holds the characters of str(cell).           *)
(***************************************************************************)
Str(s) ==
    [t |-> "str", s |-> s]

NaCell ==
    [t |-> "nan", s |-> <<>>]

NumCell(s) ==
    [t |-> "num", s |-> s]

\* Python's str(x): "nan" for a missing value, the digits of a number
PyStr(c) ==
    IF c.t = "nan" THEN <<"n", "a", "n">> ELSE c.s

RECURSIVE LStrip(_)
LStrip(s) ==
    IF s # <<>> /\ Head(s) = " " THEN LStrip(Tail(s)) ELSE s

RECURSIVE RStrip(_)
RStrip(s) ==
    IF s # <<>> /\ s[Len(s)] = " " THEN RStrip(SubSeq(s, 1, Len(s) - 1)) ELSE s

\* str.strip(): leading and trailing whitespace removed
Strip(s) ==
    RStrip(LStrip(s))

FLL ==
    <<"F", "L", "L">>

LAS ==
    <<"L", "A", "S">>

DTW ==
    <<"D", "T", "W">>

MCO ==
    <<"M", "C", "O">>

P2P ==
    <<"P", "2", "P">>

HubCodes ==
    {FLL, LAS, DTW, MCO}

\* outcome of a Python expression: a value, or a raised exception
Ok(v) ==
    [raised |-> FALSE, v |-> v]

Raised ==
    [raised |-> TRUE, v |-> <<>>]

NetworkTypeNoTrim(h) ==
    IF Strip(PyStr(h)) \in HubCodes THEN Ok(h.s) ELSE Ok(P2P)

\* line 89: lambda h: h.strip() if str(h).strip() in [...] else "P2P"
\* (h.strip() raises AttributeError when h is not a str)
NetworkType(h) ==
    IF Strip(PyStr(h)) \in HubCodes
    THEN (IF h.t = "str" THEN Ok(Strip(h.s)) ELSE Raised)
    ELSE Ok(P2P)

\* lines 74-76: lambda x: str(x).strip() if str(x).strip() in [...] else "P2P"
PavHub(x) ==
    IF Strip(PyStr(x)) \in HubCodes THEN Ok(Strip(PyStr(x))) ELSE Ok(P2P)

(***************************************************************************)
(* State.                                                                  *)
(*   pc              position of the script                                *)
(*   base_file       the parsed NET_in sheet (input, never written)        *)
(*   pav_file        the parsed root_3.xlsx, or its absence (input)        *)
(*   df_raw          the record table                                      *)
(*   days_op         the (ScenarioLabel, AF, Days Operated) table          *)
(*   warnings        st.warning messages shown so far                      *)
(*   errors          st.error messages shown so far                        *)
(*   norm_mode       "fit" or "fallback" once the normalizer has run       *)
(*   trasm_fit       the regression coefficients (slope, intercept)        *)
(*   min_score       the batch minimum of Raw Usefulness                   *)
(*   hub_summary, system_summary, df_view   the tables of the two tabs     *)
(*   diff            the scenario differ's result                          *)
(*   arg, res        argument and result of the function-level specs       *)
(***************************************************************************)
VARIABLES pc, base_file, pav_file, df_raw, days_op, warnings, errors,
          norm_mode, trasm_fit, min_score, hub_summary, system_summary,
          df_view, diff, arg, res

vars ==
    <<pc, base_file, pav_file, df_raw, days_op, warnings, errors, norm_mode,
      trasm_fit, min_score, hub_summary, system_summary, df_view, diff, arg, res>>

(***************************************************************************)
(* Sequence helpers (pandas operations are row-order preserving).          *)
(***************************************************************************)
Map(f(_), s) ==
    [i \in 1..Len(s) |-> f(s[i])]

Idx(s) ==
    1..Len(s)

RECURSIVE SelectRows(_, _)
\* boolean-mask row selection: the rows at the positions in keep, in order
SelectRows(s, keep) ==
    IF s = <<>> THEN <<>>
    ELSE LET rest == SelectRows(SubSeq(s, 1, Len(s) - 1), keep)
         IN  IF Len(s) \in keep THEN Append(rest, s[Len(s)]) ELSE rest

RECURSIVE SumSet(_, _)
\* the sum of f[i] over the positions in S, skipping NaN (pandas sum, skipna)
SumSet(f, S) ==
    IF S = {} THEN Num(0)
    ELSE LET i == CHOOSE j \in S : TRUE
         IN  IF IsNaN(f[i]) THEN SumSet(f, S \ {i})
             ELSE Add(f[i], SumSet(f, S \ {i}))

\* "Pavlina Assumptions", line 62; a string is a sequence of tokens
PavlinaLabel ==
    Str(<<"Pavlina Assumptions">>)

\* str + str on object columns: NaN when either side is missing
Concat(a, b) ==
    IF a.t = "nan" \/ b.t = "nan" THEN NaCell ELSE Str(a.s \o b.s)

\* a cell of a numeric column that holds text which is no number
Txt ==
    [k |-> "txt", n |-> 0, d |-> 1]

\* pd.to_numeric(errors="coerce"): text that is no number becomes NaN
ToNumeric(x) ==
    IF x.k = "txt" THEN NaN ELSE x

(***************************************************************************)
(* Lines 55-85: the Pavlina load.  The file is absent (read_excel raises)  *)
(* or a frame with a set of column names; indexing a column that is not    *)
(* there raises KeyError.  Everything before line 82 writes df_pav only.   *)
(***************************************************************************)
PavWarning ==
    "Failed to load or process Pavlina file (root_3.xlsx)"

\* lines 59-76 for one row of root_3.xlsx, then lines 78-81: the columns of
\* df_raw that df_pav lacks are NaN, and only df_raw's columns are kept
PavRow(p) ==
    LET dep == Str(Strip(PyStr(p.O)))
        arr == Str(Strip(PyStr(p.D)))
    IN  [ScenarioLabel |-> PavlinaLabel,
         AF |-> Concat(dep, arr),
         Dep |-> dep,
         Arr |-> arr,
         Day |-> Num(1),
         Hub |-> Str(PavHub(p.O).v),
         Dist |-> ToNumeric(p.SL),
         Seats |-> Num(1),
         ASM |-> ToNumeric(p.AddedASMs),
         Pax |-> Num(0),
         Rev |-> Num(0),
         URev |-> ToNumeric(p.AddedRev),
         Cut |-> Num(0),
         Spill |-> Num(1),
         Yield |-> Num(0),
         Cost |-> NaN,
         Profit |-> NaN]

\* the columns lines 59-65 index
PavNeeded ==
    {"O", "D", "SL", "Added ASMs", "Added ASMs * TRASM"}

PavlinaTryEager(raw, file) ==
    IF ~file.present THEN [raw |-> raw, warn |-> {PavWarning}]
    ELSE IF ~(PavNeeded \subseteq file.cols)
         THEN [raw |-> raw \o Map(PavRow, file.rows), warn |-> {PavWarning}]
    ELSE [raw |-> raw \o Map(PavRow, file.rows), warn |-> {}]

\* lines 55-85: df_raw is assigned once, by the concat of line 82, after
\* every statement that can raise; the handler only warns
PavlinaTry(raw, file) ==
    IF ~file.present THEN [raw |-> raw, warn |-> {PavWarning}]
    ELSE IF ~(PavNeeded \subseteq file.cols)
         THEN [raw |-> raw, warn |-> {PavWarning}]
    ELSE [raw |-> raw \o Map(PavRow, file.rows), warn |-> {}]

(***************************************************************************)
(* Lines 87-89: AF as text, ASM filled from seats x distance, hub class.   *)
(***************************************************************************)
CoerceRow(r) ==
    [AF |-> Str(PyStr(r.AF)),
     ASM |-> IF NotNa(r.ASM) THEN r.ASM ELSE Mul(r.Seats, r.Dist),
     NetworkType |-> Str(NetworkType(r.Hub).v)] @@ r

(***************************************************************************)
(* Lines 91-94: the frequency count.                                       *)
(***************************************************************************)
\* Series.clip(upper=7), line 91
DaysCap ==
    7

\* groupby keys: groups whose ScenarioLabel is missing are dropped (AF is text)
GroupKeys(rows) ==
    {<<rows[i].ScenarioLabel, rows[i].AF>> : i \in {j \in Idx(rows) : rows[j].ScenarioLabel.t # "nan"}}

\* nunique(): the distinct non-missing Day of Week values of the group
NUnique(rows, key) ==
    Cardinality({rows[i].Day : i \in {j \in Idx(rows) :
        /\ <<rows[j].ScenarioLabel, rows[j].AF>> = key
        /\ NotNa(rows[j].Day)}})

Clip(n) ==
    IF n > DaysCap THEN DaysCap ELSE n

DaysOpTable(rows) ==
    {[ScenarioLabel |-> key[1], AF |-> key[2], DaysOperated |-> Clip(NUnique(rows, key))] :
        key \in GroupKeys(rows)}

\* merge(days_op, on=[ScenarioLabel, AF], how="left"): every row of df_raw is
\* kept, in order, one output row per matching days_op row; NaN without a match
MergeLeft(rows, dop) ==
    LET hits(r) == {d \in dop : d.ScenarioLabel = r.ScenarioLabel /\ d.AF = r.AF}
        one(r) == [DaysOperated |-> IF hits(r) = {} THEN NaN
                                    ELSE Num((CHOOSE d \in hits(r) : TRUE).DaysOperated),
                   RouteID |-> Concat(Concat(r.ScenarioLabel, Str(<<":">>)), r.AF)] @@ r
    IN  Map(one, rows)

(***************************************************************************)
(* Lines 95-98: RPM, load factor, RASM, TRASM.                             *)
(***************************************************************************)
MetricsRow(r) ==
    LET rpm == Mul(r.Pax, r.Dist)
    IN  [RPM |-> rpm,
         LoadFactor |-> Mul(Div(rpm, r.ASM), Num(100)),
         RASM |-> Mul(Div(r.Rev, r.ASM), Num(100)),
         TRASM |-> Mul(Div(r.URev, r.ASM), Num(100))] @@ r

(***************************************************************************)
(* Lines 100-123: Pavlina rows take a zero or missing value of the six     *)
(* fallback columns from the first base row with the same airport pair.    *)
(***************************************************************************)
IsPav(r) ==
    r.ScenarioLabel = PavlinaLabel

\* df_base_lookup: non-Pavlina rows, first per (Departure, Arrival) airport
BaseLookup(rows, dep, arr) ==
    {i \in Idx(rows) :
        /\ ~IsPav(rows[i]) /\ rows[i].Dep = dep /\ rows[i].Arr = arr
        /\ \A j \in 1..(i - 1) : IsPav(rows[j]) \/ rows[j].Dep # dep \/ rows[j].Arr # arr}

\* original.mask((original.isna() | (original == 0)) & fallback.notna(), fallback)
MaskFill(orig, fb) ==
    IF (IsNaN(orig) \/ IsZero(orig)) /\ NotNa(fb) THEN fb ELSE orig

FallbackFill(rows) ==
    LET fill(r) ==
            LET hit == BaseLookup(rows, r.Dep, r.Arr)
            IN  IF ~IsPav(r) \/ hit = {} THEN r
                ELSE LET b == rows[CHOOSE i \in hit : TRUE]
                     IN  [r EXCEPT !.Pax = MaskFill(@, b.Pax),
                                   !.Rev = MaskFill(@, b.Rev),
                                   !.LoadFactor = MaskFill(@, b.LoadFactor),
                                   !.Yield = MaskFill(@, b.Yield),
                                   !.RASM = MaskFill(@, b.RASM),
                                   !.TRASM = MaskFill(@, b.TRASM)]
    IN  Map(fill, rows)

(***************************************************************************)
(* Lines 125-128: the elasticity multiplier.                               *)
(***************************************************************************)
ElasticityWithFrequency(pax, seats, days) ==
    IF Gt(pax, Mul(Mul(Mul(Fin(11, 10), seats), days), Fin(7, 10)))
    THEN Fin(6, 5) ELSE Num(1)

\* 1.2 if row["Constrained Segment Pax"] > 1.1 * row["Seats"] * 0.7 else 1.0
\* (days is the row's Days Operated, which the lambda does not read)
Elasticity(pax, seats, days) ==
    IF Gt(pax, Mul(Mul(Fin(11, 10), seats), Fin(7, 10)))
    THEN Fin(6, 5) ELSE Num(1)

ElasticityRow(r) ==
    [Elasticity |-> Elasticity(r.Pax, r.Seats, r.DaysOperated)] @@ r

(***************************************************************************)
(* Lines 131-145: stage-length normalisation.                              *)
(*                                                                         *)
(* valid_mask is written  a.notna() & a > 0 & t.notna() & np.isfinite(t).  *)
(* Python binds & tighter than >, so this is                               *)
(*     (a.notna() & a) > (0 & t.notna() & np.isfinite(t)).                 *)
(* The right side is all False (0 & anything); the left side is the        *)
(* logical and of a.notna() with the distance taken as a truth value.  The *)
(* mask is therefore "distance present and nonzero": TRASM is not looked   *)
(* at and a negative distance passes.  (On an int64 column the left side   *)
(* is the bitwise and with 1, "distance odd"; every distance of this model *)
(* is odd or zero, so the two readings select the same rows.)              *)
(***************************************************************************)
valid_mask(r) ==
    NotNa(r.Dist) /\ ~IsZero(r.Dist)

\* what lines 131-136 mean to select (spec 4.4): a positive distance and a
\* finite TRASM
IntendedValid(r) ==
    IsFin(r.Dist) /\ Gt(r.Dist, Num(0)) /\ IsFin(r.TRASM)

\* line 138: if valid_mask.sum() > 10
MinSample ==
    10

Enough(n) ==
    n > MinSample

RECURSIVE Log3(_, _)
Log3(n, d) ==
    IF n = 1 /\ d = 1 THEN Num(0)
    ELSE IF d = 1 /\ n % 3 = 0 THEN Add(Log3(n \div 3, 1), Num(1))
    ELSE IF n = 1 /\ d % 3 = 0 THEN Sub(Log3(1, d \div 3), Num(1))
    ELSE NaN

\* np.log, in units of ln 3: exact on the powers of 3, which are the positive
\* distances of this model (the fitted values slope*x + intercept do not
\* depend on the unit of x).  log(0) = -inf, log(negative) = NaN.
Ln(x) ==
    IF IsNaN(x) THEN NaN
    ELSE IF IsInf(x) THEN (IF x.n > 0 THEN PInf ELSE NaN)
    ELSE IF x.n = 0 THEN NInf
    ELSE IF x.n < 0 THEN NaN
    ELSE Log3(x.n, x.d)

FitOk(slope, intercept) ==
    [raised |-> FALSE, slope |-> slope, intercept |-> intercept]

FitRaised ==
    [raised |-> TRUE, slope |-> NaN, intercept |-> NaN]

\* np.polyfit(x, y, 1).  On finite data of full rank: the least-squares line.
\* All x equal (rank 1): the minimum-norm solution of the column-scaled
\* system, slope = mean(y)/(2 x0), intercept = mean(y)/2; with x0 = 0 the
\* scaling divides by zero and the data handed to lstsq is not finite.
\* On non-finite data LAPACK either fails to converge (LinAlgError) or
\* returns NaN coefficients: both outcomes are kept.
Polyfit(xs, ys) ==
    LET n == Len(xs)
        N == Num(n)
        sx == SumSet(xs, Idx(xs))
        sy == SumSet(ys, Idx(ys))
        sxx == SumSet([i \in Idx(xs) |-> Mul(xs[i], xs[i])], Idx(xs))
        sxy == SumSet([i \in Idx(xs) |-> Mul(xs[i], ys[i])], Idx(xs))
        den == Sub(Mul(N, sxx), Mul(sx, sx))
        slope == Div(Sub(Mul(N, sxy), Mul(sx, sy)), den)
        mean == Div(sy, N)
    IN  IF \E i \in Idx(xs) : ~IsFin(xs[i]) \/ ~IsFin(ys[i])
        THEN {FitRaised, FitOk(NaN, NaN)}
        ELSE IF ~IsZero(den)
        THEN {FitOk(slope, Div(Sub(sy, Mul(slope, sx)), N))}
        ELSE IF IsZero(xs[1])
        THEN {FitRaised, FitOk(NaN, NaN)}
        ELSE {FitOk(Div(mean, Mul(Num(2), xs[1])), Div(mean, Num(2)))}

NormWarning ==
    "Not enough valid data to compute adjusted TRASM. Using raw TRASM."

FillNa1(x) ==
    IF IsNaN(x) THEN Num(1) ELSE x

\* lines 131-145 on a table: the possible outcomes (one, unless polyfit is
\* handed non-finite data)
StageLength(rows) ==
    LET valid == {i \in Idx(rows) : valid_mask(rows[i])}
        clean == SelectRows(rows, valid)
        xs == [i \in Idx(clean) |-> Ln(clean[i].Dist)]
        ys == [i \in Idx(clean) |-> clean[i].TRASM]
        fitted(f) ==
            LET one(r) == [NormTRASM |-> Add(Mul(f.slope, Ln(FillNa1(r.Dist))), f.intercept)] @@ r
            IN  Map(one, rows)
        raw(r) == [NormTRASM |-> r.TRASM] @@ r
    IN  IF Enough(Cardinality(valid))
        THEN {[raised |-> f.raised, mode |-> "fit", fit |-> <<f.slope, f.intercept>>,
               rows |-> IF f.raised THEN rows ELSE fitted(f), warn |-> {}] :
                 f \in Polyfit(xs, ys)}
        ELSE {[raised |-> FALSE, mode |-> "fallback", fit |-> <<NaN, NaN>>,
               rows |-> Map(raw, rows), warn |-> {NormWarning}]}

(***************************************************************************)
(* Lines 147-153: Raw Usefulness and the floor shift.                      *)
(***************************************************************************)
RawUsefulness(trasm, norm, elast, spill) ==
    Mul(Mul(Div(Sub(trasm, norm), norm), elast),
        Add(Num(1), Mul(Fin(1, 10), spill)))

RECURSIVE MinOver(_, _)
MinOver(f, S) ==
    LET i == CHOOSE j \in S : TRUE
        rest == MinOver(f, S \ {i})
    IN  IF S = {} THEN NaN
        ELSE IF Cardinality(S) = 1 THEN f[i]
        ELSE IF Lt(f[i], rest) THEN f[i] ELSE rest

\* Series.min(): the least non-missing value, NaN when there is none
SeriesMin(f) ==
    MinOver(f, {i \in DOMAIN f : NotNa(f[i])})

ShiftNever(x, m) ==
    x

\* line 153: raw - min_score if min_score < 0 else raw
Shift(x, m) ==
    IF Lt(m, Num(0)) THEN Sub(x, m) ELSE x

Usefulness(rows) ==
    LET rawOf(r) == RawUsefulness(r.TRASM, r.NormTRASM, r.Elasticity, r.Spill)
        raws == [i \in Idx(rows) |-> rawOf(rows[i])]
        m == SeriesMin(raws)
    IN  [min |-> m,
         rows |-> [i \in Idx(rows) |->
                     [RawUsefulness |-> raws[i], Usefulness |-> Shift(raws[i], m)] @@ rows[i]]]

(***************************************************************************)
(* Lines 12-31: compute_rrs, for one record.                               *)
(***************************************************************************)
\* Series.replace(v, np.nan)
Replace(x, v) ==
    IF x = v THEN NaN ELSE x

SpillAdjustedNoGuard(spill) ==
    Sub(Num(1), spill)

\* line 26: 1 - df[spill_col].replace(1, np.nan)
SpillAdjusted(spill) ==
    Sub(Num(1), Replace(spill, Num(1)))

\* line 23: CASM / df[yield_col].replace(0, np.nan)
BELF(casm, yield) ==
    Div(casm, Replace(yield, Num(0)))

\* market_avg_fare=11.0, line 19
MarketAvgFare ==
    11

compute_rrs(r) ==
    LET cost == ToNumeric(r.Cost)
        profit == ToNumeric(r.Profit)
        asm == ToNumeric(r.ASM)
        yield == ToNumeric(r.Yield)
        lf == ToNumeric(r.LoadFactor)
        spill == ToNumeric(r.Spill)
        casm == Div(cost, asm)
        belf == BELF(casm, yield)
        lfdec == Div(lf, Num(100))
        lfmb == Sub(lfdec, belf)
        sadj == SpillAdjusted(spill)
        ppa == Div(profit, Mul(asm, Num(1000)))
        simp == Mul(Mul(Div(lfmb, sadj), ppa), Num(10000))
        prem == Div(yield, Num(MarketAvgFare))
    IN  [Cost |-> cost, Profit |-> profit, ASM |-> asm, Yield |-> yield,
         LoadFactor |-> lf, Spill |-> spill, CASM |-> casm, BELF |-> belf,
         LF_decimal |-> lfdec, LF_minus_BELF |-> lfmb, Spill_Adjusted |-> sadj,
         Profit_per_ASM |-> ppa, RRS_simplified |-> simp, Fare_Premium |-> prem,
         RRS |-> Mul(simp, prem)] @@ r

(***************************************************************************)
(* Lines 165-202: the two tabs.                                            *)
(***************************************************************************)
\* Series.unique(): the distinct labels, the missing one included
Labels(rows) ==
    {rows[i].ScenarioLabel : i \in Idx(rows)}

\* Series.dropna().unique()
LabelsDropNa(rows) ==
    {l \in Labels(rows) : l.t # "nan"}

KeepAll(rows) ==
    rows

\* drop_duplicates(subset=["ScenarioLabel", "AF"]): the first row of each key
DropDuplicates(rows) ==
    SelectRows(rows, {i \in Idx(rows) : \A j \in 1..(i - 1) :
        rows[j].ScenarioLabel # rows[i].ScenarioLabel \/ rows[j].AF # rows[i].AF})

\* the body of the groupby(...).apply lambdas of lines 173-176 and 180-183,
\* on the row positions S of one group
GroupSummary(rows, S) ==
    LET first == rows[CHOOSE i \in S : \A j \in S : i <= j]
    IN  [WeeklyDepartures |-> IF first.ScenarioLabel = PavlinaLabel
                              THEN Cardinality(S) * 7 ELSE Cardinality(S),
         ASMs |-> Div(SumSet([i \in Idx(rows) |-> rows[i].ASM], S), Num(1000000))]

\* lines 170-176, for the scenario chosen in the first tab (no row equals a
\* missing selection)
HubSummary(rows, selected) ==
    LET in == {i \in Idx(rows) : rows[i].ScenarioLabel = selected /\ selected.t # "nan"}
    IN  {[Hub |-> h] @@ GroupSummary(rows, {i \in in : rows[i].NetworkType = h}) :
            h \in {rows[i].NetworkType : i \in in}}

\* lines 180-183
SystemSummary(rows) ==
    {[Scenario |-> l] @@ GroupSummary(rows, {i \in Idx(rows) : rows[i].ScenarioLabel = l}) :
        l \in LabelsDropNa(rows)}

\* the options of st.selectbox("Select Hub", ...), line 189
HubChoices ==
    {DTW, LAS, FLL, MCO, P2P}

\* lines 192-196: filter, optional cut filter, first row per key
RouteView(rows, scenario, hub, only_cut) ==
    DropDuplicates(SelectRows(rows, {i \in Idx(rows) :
        /\ rows[i].ScenarioLabel = scenario
        /\ scenario.t # "nan"
        /\ rows[i].NetworkType = Str(hub)
        /\ (only_cut => rows[i].Cut = Num(1))}))

\* a precedes b under sort_values("Usefulness", ascending=False): NaN last
SortedDesc(s) ==
    \A i \in 1..(Len(s) - 1) :
        \/ IsNaN(s[i + 1].Usefulness)
        \/ (NotNa(s[i].Usefulness) /\ ~Lt(s[i].Usefulness, s[i + 1].Usefulness))

\* line 197: the sort is not stable, rows of equal score come in any order
SortValues(rows) ==
    {[i \in Idx(rows) |-> rows[p[i]]] :
        p \in {q \in [Idx(rows) -> Idx(rows)] :
                 /\ \A a, b \in Idx(rows) : a # b => q[a] # q[b]
                 /\ SortedDesc([i \in Idx(rows) |-> rows[q[i]]])}}

(***************************************************************************)
(* The scenario differ (spec 4.7).  The file under src/ holds no differ;   *)
(* it is modelled from the spec, over the scenario sets of the record      *)
(* table: the route records of one scenario label, first row per route     *)
(* identifier (spec 4.3).                                                  *)
(***************************************************************************)
ScenarioSet(rows, label) ==
    DropDuplicates(SelectRows(rows, {i \in Idx(rows) : rows[i].ScenarioLabel = label}))

RouteIds(set) ==
    {set[i].AF : i \in Idx(set)}

AddedAll(base, comp) ==
    RouteIds(comp)

Added(base, comp) ==
    RouteIds(comp) \ RouteIds(base)

Removed(base, comp) ==
    RouteIds(base) \ RouteIds(comp)

Retained(base, comp) ==
    RouteIds(base) \cap RouteIds(comp)

\* the join of base and comparison records on the route identifier, one
\* delta row per joined pair
Deltas(base, comp) ==
    {[AF |-> base[i].AF, b |-> i, c |-> j,
      dUsefulness |-> Sub(comp[j].Usefulness, base[i].Usefulness),
      dNormTRASM |-> Sub(comp[j].NormTRASM, base[i].NormTRASM),
      dASM |-> Sub(comp[j].ASM, base[i].ASM)] :
        <<i, j>> \in {q \in Idx(base) \X Idx(comp) : base[q[1]].AF = comp[q[2]].AF}}

Differ(rows, a, b) ==
    LET base == ScenarioSet(rows, a)
        comp == ScenarioSet(rows, b)
    IN  [ran |-> TRUE, base |-> a, comp |-> b,
         added |-> Added(base, comp), removed |-> Removed(base, comp),
         retained |-> Retained(base, comp), deltas |-> Deltas(base, comp)]

NoDiff ==
    [ran |-> FALSE, base |-> NaCell, comp |-> NaCell, added |-> {}, removed |-> {},
     retained |-> {}, deltas |-> {}]

(***************************************************************************)
(* Inputs of the pipeline.                                                 *)
(***************************************************************************)
ScA ==
    Str(<<"A">>)

ScB ==
    Str(<<"B">>)

RECURSIVE Pow3(_)
Pow3(k) ==
    IF k = 0 THEN 1 ELSE 3 * Pow3(k - 1)

\* one row of the NET_in sheet
Leg(scen, af, day, dist, urev, pax, cut) ==
    [ScenarioLabel |-> scen, AF |-> af, Dep |-> Str(FLL), Arr |-> Str(LAS),
     Day |-> day, Hub |-> Str(<<" ">> \o FLL), Dist |-> dist, Seats |-> Num(100),
     ASM |-> NaN, Pax |-> pax, Rev |-> Num(50), URev |-> urev, Cut |-> cut,
     Spill |-> Fin(1, 2), Yield |-> Num(10), Cost |-> Num(40), Profit |-> Num(20)]

\* the longest table of the small family
MaxLegs ==
    2

SmallLegs ==
    {Leg(sc, af, Num(day), Num(3), Num(300 * day), Num(70 + 10 * day), Num(day - 1)) :
        sc \in {ScA, ScB}, af \in {Str(<<"1">>), NumCell(<<"2">>)}, day \in {1, 2}}
    \cup {Leg(NaCell, Str(<<"1">>), Num(1), Num(3), Num(300), Num(80), Num(0)),
          Leg(ScA, Str(<<"1">>), NaN, Num(9), Num(300), Num(80), Num(0))}

SmallTables ==
    UNION {[1..n -> SmallLegs] : n \in 1..MaxLegs}

\* the counts of the large family: rows of scenario A, rows of scenario B,
\* rows with a missing value
MaxA ==
    12

MaxB ==
    2

MaxBad ==
    2

\* A: one flight on day i, distances 1, 3, 9 mi in turn, TRASM falling with
\* the stage length (TRASM = revenue / distance at 100 seats)
RowA(i) ==
    Leg(ScA, Str(<<"1">>), Num(i), Num(Pow3(i % 3)),
        Num((30 - 10 * (i % 3) + 3 * (i % 2)) * Pow3(i % 3)), Num(70), Num(0))

\* B: a second flight, 9 mi, TRASM 60
RowB(i) ==
    Leg(ScB, Str(<<"2">>), Num(i), Num(9), Num(540), Num(80), Num(1))

\* a row without revenue (TRASM missing), then a row without distance
RowBad(i) ==
    IF i = 1 THEN Leg(ScB, Str(<<"3">>), Num(1), Num(3), NaN, Num(80), Num(0))
    ELSE Leg(ScB, Str(<<"3">>), Num(i), NaN, Num(300), Num(80), Num(0))

BigTable(a, b, c) ==
    [i \in 1..a |-> RowA(i)] \o [i \in 1..b |-> RowB(i)] \o [i \in 1..c |-> RowBad(i)]

BigTables ==
    {BigTable(a, b, c) : a \in 0..MaxA, b \in 0..MaxB, c \in 0..MaxBad} \ {<<>>}

\* the most legs (days of week) of one route in the scenario family
MaxRep ==
    2

\* route k of a scenario on day d: 3^(k-1) mi
RouteLeg(sc, k, d) ==
    Leg(sc, Str(<<"R", ToString(k)>>), Num(d), Num(Pow3(k - 1)), Num(100 * k + (IF sc = ScB THEN 50 ELSE 0)),
        Num(70 + 5 * k), Num(0))

RECURSIVE RouteLegs(_, _, _)
\* the legs of the routes ids of scenario sc, rep days each, by route then day
RouteLegs(sc, ids, rep) ==
    IF ids = {} THEN <<>>
    ELSE LET k == CHOOSE x \in ids : \A y \in ids : x <= y
         IN  [d \in 1..rep |-> RouteLeg(sc, k, d)] \o RouteLegs(sc, ids \ {k}, rep)

\* two scenarios over the routes R1..R3, as in the concrete case of spec 8
ScenarioTables ==
    {RouteLegs(ScA, a, rep) \o RouteLegs(ScB, b, 1) :
        a \in SUBSET {1, 2, 3} \ {{}}, b \in SUBSET {1, 2, 3} \ {{}}, rep \in 1..MaxRep}

PavRowIn(o, d) ==
    [O |-> o, D |-> d, SL |-> Num(9), AddedASMs |-> Num(900), AddedRev |-> Txt]

NoPavFile ==
    [present |-> FALSE, cols |-> {}, rows |-> <<>>]

PavRowsIn ==
    {<<PavRowIn(Str(<<"F", "L", "L", " ">>), Str(LAS))>>,
     <<PavRowIn(Str(MCO), NaCell), PavRowIn(Str(MCO), NaCell)>>}

PavFiles ==
    {NoPavFile}
    \cup {[present |-> TRUE, cols |-> PavNeeded \ {c}, rows |-> r] : c \in PavNeeded, r \in PavRowsIn}
    \cup {[present |-> TRUE, cols |-> PavNeeded, rows |-> r] : r \in PavRowsIn}

\* the tables the Pavlina variants are loaded beside
PavBases ==
    {<<RowA(1)>>, <<RowB(1), RowA(1), RowA(2)>>}

NoFit ==
    <<NaN, NaN>>

Init ==
    /\ pc = "load"
    /\ \/ base_file \in SmallTables /\ pav_file = NoPavFile
       \/ base_file \in BigTables /\ pav_file = NoPavFile
       \/ base_file \in ScenarioTables /\ pav_file = NoPavFile
       \/ base_file \in PavBases /\ pav_file \in PavFiles
    /\ df_raw = <<>>
    /\ days_op = {}
    /\ warnings = {}
    /\ errors = {}
    /\ norm_mode = "none"
    /\ trasm_fit = NoFit
    /\ min_score = NaN
    /\ hub_summary = {}
    /\ system_summary = {}
    /\ df_view = <<>>
    /\ diff = NoDiff
    /\ arg = <<>>
    /\ res = <<>>

(***************************************************************************)
(* The pipeline, one action per stage of the script.                       *)
(***************************************************************************)
ProcessError ==
    "Failed to load or process data"

\* lines 34-53
LoadBase ==
    /\ pc = "load"
    /\ df_raw' = base_file
    /\ pc' = "pavlina"
    /\ UNCHANGED <<base_file, pav_file, days_op, warnings, errors, norm_mode, trasm_fit,
                   min_score, hub_summary, system_summary, df_view, diff, arg, res>>

\* lines 55-85
LoadPavlina ==
    /\ pc = "pavlina"
    /\ LET t == PavlinaTry(df_raw, pav_file)
       IN  /\ df_raw' = t.raw
           /\ warnings' = warnings \cup t.warn
    /\ pc' = "coerce"
    /\ UNCHANGED <<base_file, pav_file, days_op, errors, norm_mode, trasm_fit,
                   min_score, hub_summary, system_summary, df_view, diff, arg, res>>

\* lines 87-89; an exception goes to the handler of lines 204-205
Coerce ==
    /\ pc = "coerce"
    /\ IF \E i \in Idx(df_raw) : NetworkType(df_raw[i].Hub).raised
       THEN /\ errors' = errors \cup {ProcessError}
            /\ pc' = "failed"
            /\ UNCHANGED df_raw
       ELSE /\ df_raw' = Map(CoerceRow, df_raw)
            /\ pc' = "aggregate"
            /\ UNCHANGED errors
    /\ UNCHANGED <<base_file, pav_file, days_op, warnings, norm_mode, trasm_fit,
                   min_score, hub_summary, system_summary, df_view, diff, arg, res>>

\* lines 91-94
Aggregate ==
    /\ pc = "aggregate"
    /\ days_op' = DaysOpTable(df_raw)
    /\ df_raw' = MergeLeft(df_raw, days_op')
    /\ pc' = "metrics"
    /\ UNCHANGED <<base_file, pav_file, warnings, errors, norm_mode, trasm_fit,
                   min_score, hub_summary, system_summary, df_view, diff, arg, res>>

\* lines 95-98
Metrics ==
    /\ pc = "metrics"
    /\ df_raw' = Map(MetricsRow, df_raw)
    /\ pc' = "fallback"
    /\ UNCHANGED <<base_file, pav_file, days_op, warnings, errors, norm_mode, trasm_fit,
                   min_score, hub_summary, system_summary, df_view, diff, arg, res>>

\* lines 100-123
Fallback ==
    /\ pc = "fallback"
    /\ df_raw' = FallbackFill(df_raw)
    /\ pc' = "elasticity"
    /\ UNCHANGED <<base_file, pav_file, days_op, warnings, errors, norm_mode, trasm_fit,
                   min_score, hub_summary, system_summary, df_view, diff, arg, res>>

\* lines 125-128
ApplyElasticity ==
    /\ pc = "elasticity"
    /\ df_raw' = Map(ElasticityRow, df_raw)
    /\ pc' = "stage"
    /\ UNCHANGED <<base_file, pav_file, days_op, warnings, errors, norm_mode, trasm_fit,
                   min_score, hub_summary, system_summary, df_view, diff, arg, res>>

\* lines 131-145; a LinAlgError goes to the handler of lines 204-205
Normalize ==
    /\ pc = "stage"
    /\ \E o \in StageLength(df_raw) :
         /\ norm_mode' = o.mode
         /\ trasm_fit' = o.fit
         /\ df_raw' = o.rows
         /\ warnings' = warnings \cup o.warn
         /\ errors' = IF o.raised THEN errors \cup {ProcessError} ELSE errors
         /\ pc' = IF o.raised THEN "failed" ELSE "useful"
    /\ UNCHANGED <<base_file, pav_file, days_op, min_score, hub_summary,
                   system_summary, df_view, diff, arg, res>>

\* lines 147-153
Score ==
    /\ pc = "useful"
    /\ LET u == Usefulness(df_raw)
       IN  /\ df_raw' = u.rows
           /\ min_score' = u.min
    /\ pc' = "rrs"
    /\ UNCHANGED <<base_file, pav_file, days_op, warnings, errors, norm_mode, trasm_fit,
                   hub_summary, system_summary, df_view, diff, arg, res>>

\* line 155
Resilience ==
    /\ pc = "rrs"
    /\ df_raw' = Map(compute_rrs, df_raw)
    /\ pc' = "report"
    /\ UNCHANGED <<base_file, pav_file, days_op, warnings, errors, norm_mode, trasm_fit,
                   min_score, hub_summary, system_summary, df_view, diff, arg, res>>

\* the value of st.selectbox: one of the options, None when there is none
SelectBox(options) ==
    IF options = {} THEN {NaCell} ELSE options

\* lines 165-202, under the widget state the user has chosen
Views ==
    /\ pc = "report"
    /\ \E selected \in SelectBox(LabelsDropNa(df_raw)), choice \in Labels(df_raw),
          hub \in HubChoices, only_cut \in BOOLEAN :
         /\ hub_summary' = HubSummary(df_raw, selected)
         /\ system_summary' = SystemSummary(df_raw)
         /\ df_view' \in SortValues(RouteView(df_raw, choice, hub, only_cut))
    /\ pc' = "done"
    /\ UNCHANGED <<base_file, pav_file, df_raw, days_op, warnings, errors, norm_mode,
                   trasm_fit, min_score, diff, arg, res>>

\* spec 4.7, on two scenario labels of the table
Diff ==
    /\ pc = "report"
    /\ \E a \in LabelsDropNa(df_raw), b \in LabelsDropNa(df_raw) :
         diff' = Differ(df_raw, a, b)
    /\ pc' = "done"
    /\ UNCHANGED <<base_file, pav_file, df_raw, days_op, warnings, errors, norm_mode,
                   trasm_fit, min_score, hub_summary, system_summary, df_view, arg, res>>

Next ==
    \/ LoadBase
    \/ LoadPavlina
    \/ Coerce
    \/ Aggregate
    \/ Metrics
    \/ Fallback
    \/ ApplyElasticity
    \/ Normalize
    \/ Score
    \/ Resilience
    \/ Views
    \/ Diff

Spec ==
    Init /\ [][Next]_vars

(***************************************************************************)
(* Properties of the pipeline (checked under Spec).                        *)
(***************************************************************************)
AfterAggregate ==
    {"metrics", "fallback", "elasticity", "stage", "useful", "rrs", "report", "done", "failed"}

AfterNormalize ==
    {"useful", "rrs", "report", "done"}

Key(r) ==
    <<r.ScenarioLabel, r.AF>>

UniqueKeys(rows) ==
    \A i, j \in Idx(rows) : Key(rows[i]) = Key(rows[j]) => i = j

\* the number of rows the load stages hand to the aggregator
LoadedRows ==
    Len(base_file) +
    (IF pav_file.present /\ pav_file.cols = PavNeeded THEN Len(pav_file.rows) ELSE 0)

C2_DaysOperatedInRange ==
    pc \in AfterAggregate =>
      /\ \A d \in days_op : d.DaysOperated \in 1..DaysCap
      /\ \A i \in Idx(df_raw) :
           /\ IsFin(df_raw[i].DaysOperated)
           /\ df_raw[i].DaysOperated.d = 1
           /\ df_raw[i].DaysOperated.n \in 1..DaysCap

\* C3 as claimed: the normalizer falls back to identity (with a warning)
\* exactly when fewer than 10 records are valid (positive distance, finite
\* TRASM), and fits otherwise.
C3_FallbackIffBelowMinSample ==
    pc \in AfterNormalize =>
      LET nvalid == Cardinality({i \in Idx(df_raw) : IntendedValid(df_raw[i])})
          identity == /\ norm_mode = "fallback"
                      /\ NormWarning \in warnings
                      /\ \A i \in Idx(df_raw) : df_raw[i].NormTRASM = df_raw[i].TRASM
      IN  identity <=> nvalid < MinSample

\* whether the Pavlina load fails: no file, or a column it indexes missing
PavFails ==
    ~pav_file.present \/ \E c \in PavNeeded : c \notin pav_file.cols

\* C7: when the Pavlina load fails, the record table after the handler is the
\* base table exactly, the warning is shown, nothing is reported as an error,
\* and the script goes on: no Pavlina row is ever in the table and the run
\* ends with the base rows reported.
C7_PavlinaFailureIsolated ==
    PavFails =>
      /\ pc = "coerce" => (df_raw = base_file /\ PavWarning \in warnings /\ errors = {})
      /\ pc \notin {"load", "pavlina"} =>
           /\ PavWarning \in warnings
           /\ Len(df_raw) = Len(base_file)
           /\ \A i \in Idx(df_raw) :
                /\ df_raw[i].ScenarioLabel = base_file[i].ScenarioLabel
                /\ df_raw[i].Dep = base_file[i].Dep
                /\ df_raw[i].Dist = base_file[i].Dist
                /\ df_raw[i].URev = base_file[i].URev
      /\ pc = "done" => errors = {}

\* C7 witness: the file was read, a column was missing, and the run finished
\* with the summaries of the base table.
C7_Witness ==
    /\ pc = "done"
    /\ pav_file.present
    /\ PavFails
    /\ PavWarning \in warnings
    /\ system_summary # {}

\* the route identifiers of a scenario, read off the record table
IdsOf(label) ==
    {df_raw[i].AF : i \in {j \in Idx(df_raw) : df_raw[j].ScenarioLabel = label}}

C9_ScenarioLocalStatistics ==
    (pc = "rrs" /\ \A i \in Idx(df_raw) : IntendedValid(df_raw[i])) =>
      \A l \in LabelsDropNa(df_raw) :
        LET own == SelectRows(df_raw, {i \in Idx(df_raw) : df_raw[i].ScenarioLabel = l})
        IN  \E o \in StageLength(own) :
              \/ o.raised
              \/ LET alone == Usefulness(Map(ElasticityRow, o.rows)).rows
                 IN  \A i \in Idx(own) :
                       /\ alone[i].NormTRASM = own[i].NormTRASM
                       /\ alone[i].Usefulness = own[i].Usefulness

(***************************************************************************)
(* Function-level specifications: the argument is drawn by Init, one       *)
(* action applies the function.  The pipeline variables stay idle.         *)
(***************************************************************************)
Idle ==
    /\ base_file = <<>>
    /\ pav_file = NoPavFile
    /\ df_raw = <<>>
    /\ days_op = {}
    /\ warnings = {}
    /\ errors = {}
    /\ norm_mode = "none"
    /\ trasm_fit = NoFit
    /\ min_score = NaN
    /\ hub_summary = {}
    /\ system_summary = {}
    /\ df_view = <<>>
    /\ diff = NoDiff

\* the longest hub label drawn
MaxLabelLen ==
    4

HubAlphabet ==
    {" ", "F", "L", "A", "S", "D", "T", "W", "M", "C", "O"}

HubInputs ==
    {Str(s) : s \in UNION {[1..n -> HubAlphabet] : n \in 0..MaxLabelLen}}
    \cup {NaCell, NumCell(<<"7">>), NumCell(<<"1", ".", "5">>)}

InitHub ==
    /\ pc = "fn"
    /\ arg \in HubInputs
    /\ res = <<>>
    /\ Idle

\* line 89 on one raw hub label
ClassifyBase ==
    /\ pc = "fn"
    /\ res' = NetworkType(arg)
    /\ pc' = "base"
    /\ UNCHANGED <<base_file, pav_file, df_raw, days_op, warnings, errors, norm_mode,
                   trasm_fit, min_score, hub_summary, system_summary, df_view, diff, arg>>

\* lines 74-76 on one raw origin label
ClassifyPav ==
    /\ pc = "fn"
    /\ res' = PavHub(arg)
    /\ pc' = "pav"
    /\ UNCHANGED <<base_file, pav_file, df_raw, days_op, warnings, errors, norm_mode,
                   trasm_fit, min_score, hub_summary, system_summary, df_view, diff, arg>>

NextHub ==
    \/ ClassifyBase
    \/ ClassifyPav

SpecHub ==
    InitHub /\ [][NextHub]_vars

\* C6: the classifier returns, without raising, one of FLL, LAS, DTW, MCO,
\* P2P for every label; the trimmed label when that is a hub code, P2P
\* otherwise (a blank, an unmatched text, a missing or non-text value).
C6_HubClassifierTotal ==
    pc \in {"base", "pav"} =>
      LET isCode == arg.t = "str" /\ \E c \in HubCodes :
                      \E a, b \in 0..Len(arg.s) :
                        /\ Len(arg.s) = a + Len(c) + b
                        /\ \A i \in 1..Len(arg.s) :
                             arg.s[i] = (IF i <= a \/ i > a + Len(c) THEN " " ELSE c[i - a])
      IN  /\ ~res.raised
          /\ res.v \in HubCodes \cup {P2P}
          /\ isCode => (res.v \in HubCodes /\ \E a \in 0..Len(arg.s) :
                            res.v = SubSeq(arg.s, a + 1, a + 3))
          /\ ~isCode => res.v = P2P

\* C6 witness: a label with whitespace on one side classified as its hub.
C6_Witness ==
    /\ pc = "base"
    /\ arg = Str(<<"D", "T", "W", " ">>)
    /\ res = Ok(DTW)

RRSInputs ==
    [Cost : {NaN, Num(0), Num(40), Txt},
     Profit : {NaN, Num(0), Num(20), Num(-5), PInf},
     ASM : {NaN, Num(0), Num(900)},
     Yield : {NaN, Num(0), Num(10), Txt},
     LoadFactor : {NaN, Num(0), Num(80), PInf},
     Spill : {NaN, Num(0), Fin(1, 2), Num(1), Num(2), Txt}]

InitRRS ==
    /\ pc = "fn"
    /\ arg \in RRSInputs
    /\ res = <<>>
    /\ Idle

\* compute_rrs on one record
ApplyRRS ==
    /\ pc = "fn"
    /\ res' = compute_rrs(arg)
    /\ pc' = "rrs_done"
    /\ UNCHANGED <<base_file, pav_file, df_raw, days_op, warnings, errors, norm_mode,
                   trasm_fit, min_score, hub_summary, system_summary, df_view, diff, arg>>

SpecRRS ==
    InitRRS /\ [][ApplyRRS]_vars

\* C5: a record whose spill rate is 1 or whose yield is 0 gets RRS = missing
\* (not an infinity), whatever its other fields.
C5_RRSMissingOnSpillOneOrYieldZero ==
    (pc = "rrs_done" /\ (arg.Spill = Num(1) \/ arg.Yield = Num(0))) => res.RRS = NaN

\* C5 witness: spill 1 on a record whose other fields are all finite and
\* nonzero, and a record that does get a finite score.
C5_Witness ==
    /\ pc = "rrs_done"
    /\ arg.Spill = Num(1)
    /\ arg.Yield = Num(10) /\ arg.Cost = Num(40) /\ arg.Profit = Num(20)
    /\ arg.ASM = Num(900) /\ arg.LoadFactor = Num(80)
    /\ res.RRS = NaN
    /\ res.Profit_per_ASM = Fin(1, 45000)

ElastInputs ==
    [Pax : {NaN, Num(0), Num(76), Num(77), Num(78), Num(154), Num(155), Num(539), Num(540)},
     Seats : {NaN, Num(0), Num(1), Num(100), Num(200)},
     DaysOperated : {NaN} \cup {Num(k) : k \in 0..DaysCap}]

InitElast ==
    /\ pc = "fn"
    /\ arg \in ElastInputs
    /\ res = <<>>
    /\ Idle

\* lines 125-128 on one record
ApplyElast ==
    /\ pc = "fn"
    /\ res' = Elasticity(arg.Pax, arg.Seats, arg.DaysOperated)
    /\ pc' = "elast_done"
    /\ UNCHANGED <<base_file, pav_file, df_raw, days_op, warnings, errors, norm_mode,
                   trasm_fit, min_score, hub_summary, system_summary, df_view, diff, arg>>

SpecElast ==
    InitElast /\ [][ApplyElast]_vars

MaxBatch ==
    2

UseRows ==
    [TRASM : {NaN, Num(-1), Num(1), Num(3)},
     NormTRASM : {NaN, Num(0), Num(2)},
     Elasticity : {Num(1), Fin(6, 5)},
     Spill : {NaN, Fin(1, 2)}]

InitUse ==
    /\ pc = "fn"
    /\ arg \in UNION {[1..n -> UseRows] : n \in 1..MaxBatch}
    /\ res = <<>>
    /\ Idle

\* lines 147-153 on one batch
ApplyUse ==
    /\ pc = "fn"
    /\ res' = Usefulness(arg)
    /\ pc' = "use_done"
    /\ UNCHANGED <<base_file, pav_file, df_raw, days_op, warnings, errors, norm_mode,
                   trasm_fit, min_score, hub_summary, system_summary, df_view, diff, arg>>

SpecUse ==
    InitUse /\ [][ApplyUse]_vars

\* C4: after the floor shift no record of the batch has a negative
\* Usefulness (a score is missing, or it is >= 0), so the minimum of the
\* scores that exist is >= 0; this for batches with missing raw scores and
\* with a zero Normalized TRASM as well.
C4_UsefulnessNonNegative ==
    pc = "use_done" =>
      /\ \A i \in Idx(res.rows) :
           LET u == res.rows[i].Usefulness
           IN  u.k = "nan" \/ u.n >= 0
      /\ \A i \in Idx(res.rows) :
           (\A j \in Idx(res.rows) : NotNa(res.rows[j].Usefulness) =>
               ~Lt(res.rows[j].Usefulness, res.rows[i].Usefulness))
             => ~Lt(res.rows[i].Usefulness, Num(0))

\* C4 witness: a batch with a negative raw score, shifted, beside a record
\* whose raw score is missing.
C4_Witness ==
    /\ pc = "use_done"
    /\ Lt(res.min, Num(0))
    /\ \E i, j \in Idx(res.rows) :
         /\ IsNaN(res.rows[i].RawUsefulness)
         /\ arg[j].NormTRASM = Num(2)
         /\ Lt(res.rows[j].RawUsefulness, Num(0))
         /\ res.rows[j].Usefulness = Num(0)

====
